---------------------------- MODULE Spec2Model ----------------------------
(***************************************************************************)
(* Model of ledger_device_sdk/src/io.rs: the Comm engine (shared APDU      *)
(* buffer with rx/tx cursors), its length-field parser get_data, the event *)
(* decoder decode_event behind next_event, and reply/apdu_send.            *)
(*                                                                         *)
(* Bytes are integers 0..255.  The 260-byte buffer is held as the sequence  *)
(* of its bytes up to the last non-zero one: every byte after it is 0, as   *)
(* Comm::new() left it.  At, Put and WriteAt read and write it by Rust      *)
(* index (from 0); slices are sequences.                                   *)
(***************************************************************************)
EXTENDS Integers, Sequences, FiniteSets, TLC

\* ------------------------------------------------------------ constants
\* pub apdu_buffer: [u8; 260]
APDU_BUFFER_SIZE == 260

\* enum StatusWords (repr u16)
SW_Ok == 36864
SW_NothingReceived == 27010
SW_BadCla == 28160
SW_BadIns == 28161
SW_BadP1P2 == 28162
SW_BadLen == 28163
SW_UserCancelled == 28164
SW_Unknown == 27904
SW_Panic == 57344

\* Reply(0x6800 + exc as u16)
SYSCALL_BASE == 26624
\* impl From<Infallible> for Reply: Reply(0x9000)
INFALLIBLE_REPLY == 36864

\* Default BOLOS APDU handling: CLA 0xB0, INS 0x01 (app name/version), 0xa7 (exit)
BOLOS_CLA == 176
BOLOS_INS_GET_APP_NAME == 1
BOLOS_INS_QUIT == 167
\* marker byte written at At(apdu_buffer, 0) by the app-name query
BOLOS_NAME_MARKER == 1

\* ---------------------------------------------------------------- bounds
\* largest received length drawn for the get_data specification (besides the
\* full buffer, APDU_BUFFER_SIZE)
MaxRx == 9
\* longest command a transport delivers
MaxLen == 6
\* commands the transports deliver plus calls besides next_event the
\* application makes, in one run
MaxOps == 2
\* largest u32 drawn for SyscallError::from (besides 2^31 - 1)
MaxCode == 60
\* lengths of the registered application name and version
NameLen == 2
VerLen == 1

VARIABLES
    apdu_buffer,    \* Comm.apdu_buffer, up to its last non-zero byte
    rx,             \* Comm.rx
    tx,             \* Comm.tx
    expected_cla,   \* Comm.expected_cla: [some |-> FALSE] or [some |-> TRUE, v |-> byte]
    G_io_app,       \* the transport signal: [apdu_state, apdu_media, apdu_length]
    app_name,       \* the registry's BOLOS_TAG_APPNAME value
    app_version,    \* the registry's BOLOS_TAG_APPVERSION value
    host_cmd,       \* the command the host sends in this run
    pc,             \* where the single flow of control is: "app" (application
                    \* code), "wait" (blocked in next_event's seph_recv),
                    \* "exit" (after exit_app), "panic"
    obs,            \* what the last call did and returned
    ncmd,           \* commands delivered so far
    ncall,          \* calls of its own the application made so far
    pending         \* the transport state that delivered the command last
                    \* returned as Event::Command and not replied to by the
                    \* application since, or "none"

vars == <<apdu_buffer, rx, tx, expected_cla, G_io_app, app_name, app_version,
          host_cmd, pc, obs, ncmd, ncall, pending>>


\* ------------------------------------------------------------- get_data
\* Result<&[u8], StatusWords>; an out-of-range slice panics
Ok(data) == [tag |-> "Ok", data |-> data]
Err(sw) == [tag |-> "Err", sw |-> sw]
Panicked == [tag |-> "Panic"]

Max(a, b) == IF a >= b THEN a ELSE b

\* self.apdu_buffer[i]
At(buf, i) == IF i < Len(buf) THEN buf[i + 1] ELSE 0

\* the array as held: without its trailing zeros
RECURSIVE Trim(_)
Trim(bytes) ==
    IF bytes = << >> \/ bytes[Len(bytes)] # 0
    THEN bytes
    ELSE Trim(SubSeq(bytes, 1, Len(bytes) - 1))

\* self.apdu_buffer[at .. at + Len(bytes)] written with bytes
WriteAt(buf, at, bytes) ==
    Trim([k \in 1..Max(Len(buf), at + Len(bytes)) |->
            IF k > at /\ k <= at + Len(bytes) THEN bytes[k - at] ELSE At(buf, k - 1)])

\* self.apdu_buffer[i] = v
Put(buf, i, v) == WriteAt(buf, i, <<v>>)

\* &buf[from..to] as a sequence
Slice(buf, from, to) == [k \in 1..(to - from) |-> At(buf, from + k - 1)]

\* faulty variant: the two length bytes read in big-endian order
from_le_bytes_swapped(lo, hi) == hi + 256 * lo

\* u16::from_le_bytes([lo, hi]) as usize
from_le_bytes(lo, hi) == lo + 256 * hi

\* u16::from_be_bytes([hi, lo])
from_be_bytes(hi, lo) == 256 * hi + lo

\* faulty variant: the bound test off by one (>= in place of >)
get_data_from_buffer_off_by_one(buf, rxv, len, offset) ==
    IF len = 0 \/ len + offset >= rxv
    THEN Err(SW_BadLen)
    ELSE Ok(Slice(buf, offset, offset + len))

\* the closure get_data_from_buffer, with the captured self.rx, self.apdu_buffer
get_data_from_buffer(buf, rxv, len, offset) ==
    IF len = 0 \/ len + offset > rxv
    THEN Err(SW_BadLen)
    ELSE IF offset + len > APDU_BUFFER_SIZE
         THEN Panicked
         ELSE Ok(Slice(buf, offset, offset + len))

\* faulty variant: the (0, 5) arm missing, so a 5-byte command with a zero length byte
\* is read as an extended header
get_data_without_zero5(buf, rxv) ==
    IF rxv = 4
    THEN Ok(<< >>)
    ELSE LET first_len_byte == At(buf, 4) IN
         CASE first_len_byte = 0 /\ rxv = 6 -> Err(SW_BadLen)
           [] first_len_byte = 0 /\ rxv # 6 ->
                get_data_from_buffer(buf, rxv, from_le_bytes(At(buf, 5), At(buf, 6)), 7)
           [] OTHER -> get_data_from_buffer(buf, rxv, first_len_byte, 5)

get_data(buf, rxv) ==
    IF rxv = 4
    THEN Ok(<< >>)
    ELSE LET first_len_byte == At(buf, 4) IN
         CASE first_len_byte = 0 /\ rxv = 5 -> Ok(<< >>)
           [] first_len_byte = 0 /\ rxv = 6 -> Err(SW_BadLen)
           [] first_len_byte = 0 /\ rxv \notin {5, 6} ->
                get_data_from_buffer(buf, rxv, from_le_bytes(At(buf, 5), At(buf, 6)), 7)
           [] OTHER -> get_data_from_buffer(buf, rxv, first_len_byte, 5)

\* ------------------------------------------- specification for get_data
\* Inputs of get_data: the received length and the three length bytes, over a
\* buffer whose other bytes are all different from their neighbours.
Fill(i) == (7 * i + 3) % 256
LenByte4 == {0, 1, 2, 255}
LenByte5 == {0, 1, 2, 253, 254}
LenByte6 == {0, 1}
RxInputs == 0..MaxRx \cup {APDU_BUFFER_SIZE}

NoCla == [some |-> FALSE]
SomeCla(v) == [some |-> TRUE, v |-> v]
IoIdle == [apdu_state |-> "APDU_IDLE", apdu_media |-> "IO_APDU_MEDIA_NONE", apdu_length |-> 0]

InitGetData ==
    /\ \E b4 \in LenByte4, b5 \in LenByte5, b6 \in LenByte6 :
          apdu_buffer = Trim([k \in 1..APDU_BUFFER_SIZE |->
                                 CASE k = 5 -> b4 [] k = 6 -> b5 [] k = 7 -> b6
                                   [] OTHER -> Fill(k - 1)])
    /\ rx \in RxInputs
    /\ tx = 0
    /\ expected_cla = NoCla
    /\ G_io_app = IoIdle
    /\ app_name = << >>
    /\ app_version = << >>
    /\ host_cmd = << >>
    /\ pc = "app"
    /\ obs = [op |-> "new"]
    /\ ncmd = 0
    /\ ncall = 0
    /\ pending = "none"

\* the application calls get_data
GetDataCall ==
    /\ pc = "app"
    /\ ncmd + ncall < MaxOps
    /\ obs' = [op |-> "get_data", ret |-> get_data(apdu_buffer, rx)]
    /\ ncall' = ncall + 1
    /\ UNCHANGED <<apdu_buffer, rx, tx, expected_cla, G_io_app, app_name,
                   app_version, host_cmd, pc, ncmd, pending>>

NextGetData == GetDataCall

SpecGetData == InitGetData /\ [][NextGetData]_vars

\* the bytes the claims expect get_data to hand back: count bytes from offset
Expected(buf, offset, count) == [k \in 1..count |-> At(buf, offset + k - 1)]

\* C1: zero-data rules. rx = 4 gives Ok with no data whatever byte 4 holds;
\* rx = 5 with byte 4 zero gives Ok with no data; rx = 6 with byte 4 zero gives
\* BadLen (0x6e03).
C1_ZeroData ==
    obs.op = "get_data" =>
        /\ rx = 4 => obs.ret = [tag |-> "Ok", data |-> << >>]
        /\ (rx = 5 /\ At(apdu_buffer, 4) = 0) => obs.ret = [tag |-> "Ok", data |-> << >>]
        /\ (rx = 6 /\ At(apdu_buffer, 4) = 0) => obs.ret = [tag |-> "Err", sw |-> 28163]

C1_Witness ==
    /\ obs.op = "get_data"
    /\ rx = 5
    /\ At(apdu_buffer, 4) = 0
    /\ obs.ret.tag = "Ok"

\* C2: extended encoding. For rx > 6 and byte 4 zero, with
\* L = byte5 + 256 * byte6, get_data gives Ok with exactly the L bytes at
\* offsets 7 .. 7+L-1 when L # 0 and 7 + L <= rx, and BadLen otherwise.
C2_Extended ==
    (obs.op = "get_data" /\ rx > 6 /\ At(apdu_buffer, 4) = 0) =>
        LET L == At(apdu_buffer, 5) + 256 * At(apdu_buffer, 6) IN
        IF L # 0 /\ 7 + L <= rx
        THEN obs.ret = [tag |-> "Ok", data |-> Expected(apdu_buffer, 7, L)]
        ELSE obs.ret = [tag |-> "Err", sw |-> 28163]

C2_Witness ==
    /\ obs.op = "get_data"
    /\ rx = 9
    /\ At(apdu_buffer, 4) = 0 /\ At(apdu_buffer, 5) = 2 /\ At(apdu_buffer, 6) = 0
    /\ obs.ret.tag = "Ok"
    /\ obs.ret.data = <<Fill(7), Fill(8)>>

\* C3: short encoding. For rx # 4 and byte 4 = L # 0, get_data gives Ok with
\* exactly the L bytes at offsets 5 .. 5+L-1 when 5 + L <= rx, and BadLen
\* otherwise; so rx = 5 with a non-zero byte 4 is always BadLen.
C3_Short ==
    (obs.op = "get_data" /\ rx # 4 /\ At(apdu_buffer, 4) # 0) =>
        LET L == At(apdu_buffer, 4) IN
        /\ IF 5 + L <= rx
           THEN obs.ret = [tag |-> "Ok", data |-> Expected(apdu_buffer, 5, L)]
           ELSE obs.ret = [tag |-> "Err", sw |-> 28163]
        /\ rx = 5 => obs.ret = [tag |-> "Err", sw |-> 28163]

C3_Witness ==
    /\ obs.op = "get_data"
    /\ rx = APDU_BUFFER_SIZE
    /\ At(apdu_buffer, 4) = 255
    /\ obs.ret.tag = "Ok"
    /\ Len(obs.ret.data) = 255
    /\ obs.ret.data[255] = At(apdu_buffer, 259)

\* ------------------------------------------------------ reply, apdu_send
\* The engine's state while one call runs: the Comm fields, the transport
\* signal, and what the call has done so far (the complete command it found
\* in the buffer, tx on entry, replies made, byte strings handed to a
\* transport, stages of decode_event passed, the decoder's answer, the value
\* returned).
NotInvoked == [tag |-> "NotInvoked"]

Engine ==
    [apdu_buffer |-> apdu_buffer, rx |-> rx, tx |-> tx,
     expected_cla |-> expected_cla, io |-> G_io_app,
     cmd |-> << >>, pre_tx |-> tx,
     replies |-> << >>, out |-> << >>, path |-> << >>,
     decoder |-> NotInvoked, ret |-> "None",
     exited |-> FALSE, panic |-> FALSE]

\* the match on G_io_app.apdu_state: what is handed to which transport
Transmit(s) ==
    LET len16 == s.tx % 65536
        bytes == Slice(s.apdu_buffer, 0, s.tx)
    IN  CASE s.io.apdu_state = "APDU_USB_HID" ->
               << [via |-> "io_usb_hid_send", len |-> len16,
                   bytes |-> Slice(s.apdu_buffer, 0, len16)] >>
          [] s.io.apdu_state = "APDU_RAW" ->
               << [via |-> "seph_send", len |-> len16, bytes |-> bytes] >>
          [] s.io.apdu_state = "APDU_USB_CCID" ->
               << [via |-> "ccid::send", len |-> len16, bytes |-> bytes] >>
          [] s.io.apdu_state = "APDU_BLE" ->
               << [via |-> "ble::send", len |-> len16, bytes |-> bytes] >>
          [] OTHER -> << >>

\* faulty variant: rx left as it was
apdu_send_keeping_rx(s) ==
    [s EXCEPT !.out = @ \o Transmit(s),
              !.tx = 0,
              !.io = IoIdle]

\* faulty variant: the cursors and the transport state reset only when
\* something was sent
apdu_send_reset_when_sent(s) ==
    IF Transmit(s) = << >>
    THEN s
    ELSE [s EXCEPT !.out = @ \o Transmit(s),
                   !.tx = 0,
                   !.rx = 0,
                   !.io = IoIdle]

\* The status handshake (send_general_status, then seph_recv until
\* is_status_sent clears) is the transport's own business and leaves the
\* engine's state alone.
apdu_send(s) ==
    [s EXCEPT !.out = @ \o Transmit(s),
              !.tx = 0,
              !.rx = 0,
              !.io = IoIdle]

\* faulty variant: the status word written low byte first
reply_little_endian(s, sw) ==
    IF s.tx + 1 >= APDU_BUFFER_SIZE
    THEN [s EXCEPT !.panic = TRUE]
    ELSE apdu_send([s EXCEPT
            !.apdu_buffer = WriteAt(@, s.tx, <<sw % 256, (sw \div 256) % 256>>),
            !.tx = @ + 2,
            !.replies = Append(@, sw)])

\* reply: the status word at tx, tx + 1, then apdu_send; an index past the
\* buffer panics
reply(s, sw) ==
    IF s.tx >= APDU_BUFFER_SIZE
    THEN [s EXCEPT !.panic = TRUE]
    ELSE IF s.tx + 1 >= APDU_BUFFER_SIZE
    THEN [s EXCEPT !.apdu_buffer = Put(@, s.tx, (sw \div 256) % 256),
                   !.panic = TRUE]
    ELSE apdu_send([s EXCEPT
            !.apdu_buffer = WriteAt(@, s.tx, <<(sw \div 256) % 256, sw % 256>>),
            !.tx = @ + 2,
            !.replies = Append(@, sw)])

reply_ok(s) == reply(s, SW_Ok)

\* a conversion that forgets the 0x6800 base of a SyscallError
ReplyFrom_raw_code(e) == e.code

\* Into<Reply> of a decoder's error value
ReplyFrom(e) ==
    CASE e.type = "StatusWords" -> e.code
      [] e.type = "SyscallError" -> SYSCALL_BASE + e.code

get_apdu_metadata(s) ==
    [cla |-> At(s.apdu_buffer, 0), ins |-> At(s.apdu_buffer, 1),
     p1 |-> At(s.apdu_buffer, 2), p2 |-> At(s.apdu_buffer, 3)]

\* ------------------------------------------------- decode_event, by stage
Mark(s, stage) == [s EXCEPT !.path = Append(@, stage)]

\* os_registry_get_current_app_tag(tag, &mut buf[at], maxlen): the value is
\* copied to buf[at ..] and its length returned
os_registry_get_current_app_tag(buf, at, maxlen, value) ==
    LET n == IF Len(value) <= maxlen THEN Len(value) ELSE maxlen
    IN  [len |-> n, buf |-> WriteAt(buf, at, SubSeq(value, 1, n))]

\* one length-prefixed field of the app-name reply: the syscall writes at
\* tx + 1, the length goes to buffer[tx], tx advances by 1 + len
AppendTag(s, value) ==
    IF s.panic \/ s.tx + 1 >= APDU_BUFFER_SIZE
    THEN [s EXCEPT !.panic = TRUE]
    ELSE LET r == os_registry_get_current_app_tag(
                      s.apdu_buffer, s.tx + 1, APDU_BUFFER_SIZE - s.tx - 1, value)
         IN  [s EXCEPT !.apdu_buffer = Put(r.buf, s.tx, r.len % 256),
                       !.tx = @ + 1 + r.len]

\* faulty variant: the name and version staged, no reply sent
get_app_name_without_reply(s, name, version) ==
    LET s1 == [s EXCEPT !.apdu_buffer = Put(@, 0, BOLOS_NAME_MARKER),
                        !.tx = @ + 1]
    IN  AppendTag(AppendTag(s1, name), version)

\* INS 0x01
get_app_name(s, name, version) ==
    LET s1 == [s EXCEPT !.apdu_buffer = Put(@, 0, BOLOS_NAME_MARKER),
                        !.tx = @ + 1]
        s3 == AppendTag(AppendTag(s1, name), version)
    IN  IF s3.panic THEN s3 ELSE reply_ok(s3)

\* an exit that sends nothing first
quit_app_silent(s) == [s EXCEPT !.exited = TRUE, !.ret = "Diverged"]

\* INS 0xa7: reply_ok, then exit_app(0), which does not return
quit_app(s) ==
    LET s1 == reply_ok(s)
    IN  IF s1.panic THEN s1 ELSE [s1 EXCEPT !.exited = TRUE, !.ret = "Diverged"]

is_bolos_header(h) == h.cla = BOLOS_CLA /\ h.p1 = 0 /\ h.p2 = 0

\* a dispatch that surfaces the command whatever the decoder answered
dispatch_surfacing_errors(s, dec) ==
    LET s1 == [Mark(s, "try_from") EXCEPT !.decoder = dec]
    IN  IF dec.tag = "Ok"
        THEN [s1 EXCEPT !.ret = "Command"]
        ELSE [reply(s1, dec.e.code) EXCEPT !.ret = "Command"]

\* T::try_from(header) and the match on its result; dec is the answer of the
\* caller's decoder for this header
dispatch(s, dec) ==
    LET s1 == [Mark(s, "try_from") EXCEPT !.decoder = dec]
    IN  IF dec.tag = "Ok"
        THEN [s1 EXCEPT !.ret = "Command"]
        ELSE reply(s1, ReplyFrom(dec.e))

\* a filter that lets every class through
cla_filter_open(s, dec) == dispatch(Mark(s, "cla_filter"), dec)

\* if let Some(cla) = self.expected_cla
cla_filter(s, dec) ==
    LET s1 == Mark(s, "cla_filter")
    IN  IF s.expected_cla.some /\ At(s.apdu_buffer, 0) # s.expected_cla.v
        THEN reply(s1, SW_BadCla)
        ELSE dispatch(s1, dec)

\* the CLA filter placed ahead of the built-in commands
after_framing_filter_first(s, dec, name, version) ==
    LET h == get_apdu_metadata(s)
        s1 == Mark(s, "bolos")
    IN  IF s.expected_cla.some /\ h.cla # s.expected_cla.v
        THEN reply(Mark(s, "cla_filter"), SW_BadCla)
        ELSE IF is_bolos_header(h)
        THEN CASE h.ins = BOLOS_INS_GET_APP_NAME -> get_app_name(s1, name, version)
               [] h.ins = BOLOS_INS_QUIT -> quit_app(s1)
               [] OTHER -> reply(s1, SW_BadIns)
        ELSE dispatch(Mark(s1, "cla_filter"), dec)

\* Default BOLOS APDU handling, then the CLA filter and the decoder
after_framing(s, dec, name, version) ==
    LET h == get_apdu_metadata(s)
        s1 == Mark(s, "bolos")
    IN  IF is_bolos_header(h)
        THEN CASE h.ins = BOLOS_INS_GET_APP_NAME -> get_app_name(s1, name, version)
               [] h.ins = BOLOS_INS_QUIT -> quit_app(s1)
               [] OTHER -> reply(s1, SW_BadIns)
        ELSE cla_filter(s1, dec)

\* a handler that checks the header's length only
handle_apdu_without_get_data(s, dec, name, version) ==
    IF ~(s.io.apdu_state # "APDU_IDLE" /\ s.io.apdu_length > 0)
    THEN s
    ELSE LET s0 == Mark([s EXCEPT !.rx = s.io.apdu_length,
                                  !.cmd = Slice(s.apdu_buffer, 0, s.io.apdu_length)],
                        "rx_len")
         IN  IF s0.rx < 4
             THEN reply(s0, SW_BadLen)
             ELSE after_framing(Mark(s0, "get_data"), dec, name, version)

\* from the complete-command test on: rx, the two framing checks, the rest
handle_apdu(s, dec, name, version) ==
    IF ~(s.io.apdu_state # "APDU_IDLE" /\ s.io.apdu_length > 0)
    THEN s
    ELSE LET s0 == Mark([s EXCEPT !.rx = s.io.apdu_length,
                                  !.cmd = Slice(s.apdu_buffer, 0, s.io.apdu_length)],
                        "rx_len")
         IN  IF s0.rx < 4
             THEN reply(s0, SW_BadLen)
             ELSE LET gd == get_data(s0.apdu_buffer, s0.rx)
                      s1 == Mark(s0, "get_data")
                  IN  CASE gd.tag = "Err" -> reply(s1, gd.sw)
                        [] gd.tag = "Panic" -> [s1 EXCEPT !.panic = TRUE]
                        [] OTHER -> after_framing(s1, dec, name, version)

\* ------------------------------------------------ packets and transports
\* The transport collaborators (seph::handle_usb_ep_xfer_event,
\* seph::handle_capdu_event, ble::receive): a packet that completes a command
\* copies it to the start of the buffer and signals the transport and length.
MediaOf(state) ==
    CASE state = "APDU_USB_HID" -> "IO_APDU_MEDIA_USB_HID"
      [] state = "APDU_RAW" -> "IO_APDU_MEDIA_RAW"
      [] state = "APDU_USB_CCID" -> "IO_APDU_MEDIA_USB_CCID"
      [] state = "APDU_BLE" -> "IO_APDU_MEDIA_BLE"

NoEffect == [kind |-> "none"]
Delivers(state, cmd) == [kind |-> "apdu", state |-> state, cmd |-> cmd]

transport_receive(s, fx) ==
    IF fx.kind = "apdu"
    THEN [s EXCEPT
            !.apdu_buffer = WriteAt(@, 0, fx.cmd),
            !.io = [apdu_state |-> fx.state,
                    apdu_media |-> MediaOf(fx.state),
                    apdu_length |-> Len(fx.cmd)]]
    ELSE s

\* seph::handle_usb_event: the USB stack's own state, none of the engine's
handle_usb_event(s) == s

\* faulty variant: no arm for the ticker, which falls to the default arm
decode_event_without_ticker(s, pkt, dec, name, version) ==
    CASE pkt.tag = "ButtonPush" ->
           IF pkt.evt
           THEN [s EXCEPT !.ret = "Button"]
           ELSE handle_apdu(s, dec, name, version)
      [] pkt.tag = "USBEvent" ->
           handle_apdu(IF pkt.len = 1 THEN handle_usb_event(s) ELSE s,
                       dec, name, version)
      [] pkt.tag = "USBXFEREvent" ->
           handle_apdu(IF pkt.len >= 3 THEN transport_receive(s, pkt.fx) ELSE s,
                       dec, name, version)
      [] pkt.tag \in {"CAPDUEvent", "BleReceive"} ->
           handle_apdu(transport_receive(s, pkt.fx), dec, name, version)
      [] OTHER -> handle_apdu(s, dec, name, version)

\* decode_event: the match on the packet's tag, then the complete-command test
decode_event(s, pkt, dec, name, version) ==
    CASE pkt.tag = "ButtonPush" ->
           IF pkt.evt
           THEN [s EXCEPT !.ret = "Button"]
           ELSE handle_apdu(s, dec, name, version)
      [] pkt.tag = "USBEvent" ->
           handle_apdu(IF pkt.len = 1 THEN handle_usb_event(s) ELSE s,
                       dec, name, version)
      [] pkt.tag = "USBXFEREvent" ->
           handle_apdu(IF pkt.len >= 3 THEN transport_receive(s, pkt.fx) ELSE s,
                       dec, name, version)
      [] pkt.tag \in {"CAPDUEvent", "BleReceive"} ->
           handle_apdu(transport_receive(s, pkt.fx), dec, name, version)
      [] pkt.tag = "TickerEvent" -> [s EXCEPT !.ret = "Ticker"]
      [] OTHER -> handle_apdu(s, dec, name, version)

\* append: byte by byte at tx; an index past the buffer panics
append(s, m) ==
    LET n == IF s.tx + Len(m) <= APDU_BUFFER_SIZE
             THEN Len(m)
             ELSE IF s.tx <= APDU_BUFFER_SIZE THEN APDU_BUFFER_SIZE - s.tx ELSE 0
    IN  [s EXCEPT
            !.apdu_buffer = WriteAt(@, s.tx, SubSeq(m, 1, n)),
            !.tx = @ + n,
            !.panic = n < Len(m)]

\* IndexMut::index_mut, then the write through the reference it returns:
\* tx takes max(idx, tx) first, then the index is checked
index_mut(s, idx, v) ==
    LET s1 == [s EXCEPT !.tx = Max(idx, s.tx)]
    IN  IF idx >= APDU_BUFFER_SIZE
        THEN [s1 EXCEPT !.panic = TRUE]
        ELSE [s1 EXCEPT !.apdu_buffer = Put(@, idx, v)]

\* ------------------------------------------------------------ the inputs
ClaSet == {BOLOS_CLA, 224}
InsSet == {BOLOS_INS_GET_APP_NAME, BOLOS_INS_QUIT, 2}
LcSet == {0, 1}

\* every class and instruction with P1 = P2 = 0, and the app-name query with
\* one parameter set
Headers ==
    { <<c, i, 0, 0>> : c \in ClaSet, i \in InsSet }
    \cup { <<BOLOS_CLA, BOLOS_INS_GET_APP_NAME, 1, 0>>,
           <<BOLOS_CLA, BOLOS_INS_GET_APP_NAME, 0, 1>> }

\* the headers sent under every framing: the two built-in commands and an
\* ordinary one
FramedHeaders ==
    { <<BOLOS_CLA, BOLOS_INS_GET_APP_NAME, 0, 0>>,
      <<BOLOS_CLA, BOLOS_INS_QUIT, 0, 0>>,
      <<224, 2, 0, 0>> }

\* the first n bytes of: header, length byte lc, then data
Framed(h, lc, n) ==
    [k \in 1..n |->
        CASE k <= 4 -> h[k]
          [] k = 5 -> lc [] k = 6 -> 1 [] k = 7 -> 0 [] OTHER -> Fill(k - 1)]

\* the commands a host may send: every header alone, and FramedHeaders cut
\* short or followed by a length byte and data
Commands ==
    { Framed(h, 0, 4) : h \in Headers }
    \cup { Framed(h, lc, n) : h \in FramedHeaders, lc \in LcSet, n \in 0..MaxLen }

Packet(tag, len, evt, fx) == [tag |-> tag, len |-> len, evt |-> evt, fx |-> fx]

QuietPackets ==
    {Packet("TickerEvent", 0, FALSE, NoEffect),
     Packet("ButtonPush", 1, TRUE, NoEffect),
     Packet("ButtonPush", 1, FALSE, NoEffect),
     Packet("USBEvent", 1, FALSE, NoEffect),
     Packet("USBEvent", 2, FALSE, NoEffect),
     Packet("USBXFEREvent", 2, FALSE, NoEffect),
     Packet("USBXFEREvent", 3, FALSE, NoEffect),
     Packet("Unknown", 0, FALSE, NoEffect)}

\* the packets that complete the command cmd, one per transport
CommandPackets(cmd) ==
    {Packet("USBXFEREvent", 3 + Len(cmd), FALSE, Delivers("APDU_USB_HID", cmd)),
     Packet("USBXFEREvent", 3 + Len(cmd), FALSE, Delivers("APDU_USB_CCID", cmd)),
     Packet("CAPDUEvent", Len(cmd), FALSE, Delivers("APDU_RAW", cmd)),
     Packet("BleReceive", Len(cmd), FALSE, Delivers("APDU_BLE", cmd))}

\* what the caller's decoder may answer: a command, or an error with its Reply
DecoderErrors ==
    {[type |-> "StatusWords", code |-> SW_BadIns],
     [type |-> "SyscallError", code |-> 4]}
Accepted == [tag |-> "Ok"]
DecoderResults ==
    {Accepted} \cup {[tag |-> "Err", e |-> e] : e \in DecoderErrors}

\* The decoder is asked only about a complete command: when the packet
\* completes none and the transport signal is idle, its answer plays no part
\* and one stands for all.
DecoderAnswers(pkt) ==
    IF pkt.fx.kind = "apdu" \/ G_io_app.apdu_state # "APDU_IDLE"
    THEN DecoderResults
    ELSE {Accepted}

Names == { [k \in 1..NameLen |-> 64 + k] }
Versions == { [k \in 1..VerLen |-> 48 + k] }
ReplyArgs == {SW_Ok, SYSCALL_BASE + 4}
AppendArgs == {<<170, 187>>}
\* indices the application writes through IndexMut: inside the buffer, and
\* past its end
IndexArgs == {2, APDU_BUFFER_SIZE + 1}

\* ------------------------------------------------------------ the engine
\* Comm::new(), with or without set_expected_cla; the registry holds the
\* application's name and version; the host has one command to send, which
\* it may send over any transport, more than once; the application makes calls
\* of its own besides next_event; deliveries and calls together are at most
\* MaxOps
Init ==
    /\ apdu_buffer = << >>
    /\ rx = 0
    /\ tx = 0
    /\ expected_cla \in {NoCla, SomeCla(224), SomeCla(BOLOS_CLA)}
    /\ G_io_app = IoIdle
    /\ app_name \in Names
    /\ app_version \in Versions
    /\ host_cmd \in Commands
    /\ pc = "app"
    /\ obs = [op |-> "new"]
    /\ ncmd = 0
    /\ ncall = 0
    /\ pending = "none"

\* no packet: the call takes none
NoPacket == Packet("none", 0, FALSE, NoEffect)

\* what a call leaves in obs: the operation, who called it ("next_event" or
\* "app"), the packet's tag and length, the command that was waiting for the
\* application's reply when the call began, and what the engine did
Observed(op, caller, pkt, r) ==
    [op |-> op, caller |-> caller, tag |-> pkt.tag, len |-> pkt.len,
     pending |-> pending,
     cmd |-> r.cmd, pre_tx |-> r.pre_tx,
     replies |-> r.replies, out |-> r.out, path |-> r.path,
     decoder |-> r.decoder, ret |-> r.ret,
     exited |-> r.exited, panic |-> r.panic]

Commit(r) ==
    /\ apdu_buffer' = r.apdu_buffer
    /\ rx' = r.rx
    /\ tx' = r.tx
    /\ G_io_app' = r.io
    /\ UNCHANGED <<expected_cla, app_name, app_version, host_cmd>>

Counted(pkt) == IF pkt.fx.kind = "apdu" THEN 1 ELSE 0

\* the command the application owes a reply to, after a call of decode_event
Surfaced(r) == IF r.ret = "Command" THEN r.io.apdu_state ELSE pending

\* next_event up to its first seph_recv: the transport signal is reset
NextEventEnter ==
    /\ pc = "app"
    /\ G_io_app' = IoIdle
    /\ pc' = "wait"
    /\ obs' = [op |-> "next_event"]
    /\ UNCHANGED <<apdu_buffer, rx, tx, expected_cla, app_name, app_version,
                   host_cmd, ncmd, ncall, pending>>

\* one turn of next_event's loop: seph_recv hands over a packet, decode_event
\* treats it; Some(value) returns to the application, None waits again
NextEventPacket ==
    /\ pc = "wait"
    /\ \E pkt \in QuietPackets \cup CommandPackets(host_cmd) :
         \E dec \in DecoderAnswers(pkt) :
         LET r == decode_event(Engine, pkt, dec, app_name, app_version)
         IN  /\ ncmd + ncall + Counted(pkt) <= MaxOps
             /\ ncmd' = ncmd + Counted(pkt)
             /\ Commit(r)
             /\ obs' = Observed("decode_event", "next_event", pkt, r)
             /\ pending' = Surfaced(r)
             /\ pc' = CASE r.panic -> "panic"
                        [] r.exited -> "exit"
                        [] r.ret # "None" -> "app"
                        [] OTHER -> "wait"
    /\ UNCHANGED ncall

\* the application calls decode_event itself on a packet it received
DecodeEventCall ==
    /\ pc = "app"
    /\ \E pkt \in QuietPackets \cup CommandPackets(host_cmd) :
         \E dec \in DecoderAnswers(pkt) :
         LET r == decode_event(Engine, pkt, dec, app_name, app_version)
         IN  /\ ncmd + ncall + 1 + Counted(pkt) <= MaxOps
             /\ ncmd' = ncmd + Counted(pkt)
             /\ Commit(r)
             /\ obs' = Observed("decode_event", "app", pkt, r)
             /\ pending' = Surfaced(r)
             /\ pc' = CASE r.panic -> "panic"
                        [] r.exited -> "exit"
                        [] OTHER -> "app"
    /\ ncall' = ncall + 1

\* the application calls reply
ReplyCall ==
    /\ pc = "app"
    /\ ncmd + ncall < MaxOps
    /\ \E sw \in ReplyArgs :
         LET r == reply(Engine, sw)
         IN  /\ Commit(r)
             /\ obs' = Observed("reply", "app", NoPacket, r)
             /\ pc' = IF r.panic THEN "panic" ELSE "app"
    /\ ncall' = ncall + 1
    /\ pending' = "none"
    /\ UNCHANGED ncmd

\* the application calls append
AppendCall ==
    /\ pc = "app"
    /\ ncmd + ncall < MaxOps
    /\ \E m \in AppendArgs :
         LET r == append(Engine, m)
         IN  /\ Commit(r)
             /\ obs' = Observed("append", "app", NoPacket, r)
             /\ pc' = IF r.panic THEN "panic" ELSE "app"
    /\ ncall' = ncall + 1
    /\ UNCHANGED <<ncmd, pending>>

\* the application writes one byte through IndexMut: comm[idx] = v
IndexMutCall ==
    /\ pc = "app"
    /\ ncmd + ncall < MaxOps
    /\ \E idx \in IndexArgs :
         LET r == index_mut(Engine, idx, 204)
         IN  /\ Commit(r)
             /\ obs' = Observed("index_mut", "app", NoPacket, r)
             /\ pc' = IF r.panic THEN "panic" ELSE "app"
    /\ ncall' = ncall + 1
    /\ UNCHANGED <<ncmd, pending>>

Next ==
    \/ NextEventEnter
    \/ NextEventPacket
    \/ DecodeEventCall
    \/ ReplyCall
    \/ AppendCall
    \/ IndexMutCall
    \/ GetDataCall

Spec == Init /\ [][Next]_vars

\* ------------------------------------------------- decode_event's contract
\* The last call was decode_event and found a complete command in the
\* buffer (transport state not idle, length > 0); Cmd is that command.
Decoded == obs.op = "decode_event" /\ obs.cmd # << >>
Cmd == obs.cmd

\* The declared data length of a command of at least 4 bytes agrees with its
\* received length.
WellFramed(c) ==
    LET n == Len(c) IN
    \/ n = 4
    \/ n >= 5 /\ c[5] # 0 /\ 5 + c[5] <= n
    \/ n = 5 /\ c[5] = 0
    \/ n >= 7 /\ c[5] = 0 /\ c[6] + 256 * c[7] # 0 /\ 7 + c[6] + 256 * c[7] <= n

Complete(c) == Len(c) >= 4 /\ WellFramed(c)

\* a built-in system header: CLA 0xB0 with P1 = P2 = 0
BuiltIn(c) == c[1] = 176 /\ c[3] = 0 /\ c[4] = 0

\* the last two bytes of a transmitted byte string, as a status word
Trailer(bytes) ==
    IF Len(bytes) < 2 THEN -1
    ELSE 256 * bytes[Len(bytes) - 1] + bytes[Len(bytes)]

\* C4: whenever decode_event (called by next_event or by the application)
\* returns Event::Command, then at that moment rx >= 4, get_data() is Ok, the
\* header in the buffer is not a built-in system header, its CLA byte equals
\* expected_cla when one is configured, the decoder accepted the header, and
\* the engine has sent no reply and transmitted nothing during the call.
C4_OnlyValidCommands ==
    (obs.op = "decode_event" /\ obs.ret = "Command") =>
        /\ rx >= 4
        /\ get_data(apdu_buffer, rx).tag = "Ok"
        /\ ~(At(apdu_buffer, 0) = 176 /\ At(apdu_buffer, 2) = 0
             /\ At(apdu_buffer, 3) = 0)
        /\ expected_cla.some => At(apdu_buffer, 0) = expected_cla.v
        /\ obs.decoder = [tag |-> "Ok"]
        /\ obs.replies = << >>
        /\ obs.out = << >>

C4_Witness ==
    /\ obs.op = "decode_event"
    /\ obs.caller = "next_event"
    /\ obs.ret = "Command"
    /\ expected_cla = [some |-> TRUE, v |-> 224]
    /\ rx = 6
    /\ get_data(apdu_buffer, rx) = [tag |-> "Ok", data |-> <<At(apdu_buffer, 5)>>]
    /\ pc = "app"

\* C5: when the transport signals a complete command whose length is below 4
\* or whose declared data length disagrees with the received length, the
\* engine sends the single reply BadLen (0x6e03) and decode_event returns
\* None; this happens before the built-in commands, the CLA filter and the
\* decoder: none of these stages is entered and the application is not ended.
C5_FramingFirst ==
    (Decoded /\ ~Complete(Cmd)) =>
        /\ obs.replies = <<28163>>
        /\ Len(obs.out) = 1
        /\ Trailer(obs.out[1].bytes) = 28163
        /\ obs.ret = "None"
        /\ obs.path = IF Len(Cmd) < 4 THEN <<"rx_len">> ELSE <<"rx_len", "get_data">>
        /\ obs.decoder = [tag |-> "NotInvoked"]
        /\ ~obs.exited
        /\ obs.caller = "next_event" => pc = "wait"

C5_Witness ==
    /\ Decoded
    /\ Cmd = <<176, 167, 0, 0, 0, 1>>
    /\ expected_cla = [some |-> TRUE, v |-> 224]
    /\ obs.replies = <<28163>>
    /\ pc = "wait"

C7_InterceptionOrder ==
    (Decoded /\ Complete(Cmd) /\ BuiltIn(Cmd)) =>
        /\ obs.path = <<"rx_len", "get_data", "bolos">>
        /\ obs.decoder = [tag |-> "NotInvoked"]
        /\ obs.ret \in {"None", "Diverged"}
        /\ Len(obs.replies) = 1
        /\ obs.replies # <<28160>>
        /\ Cmd[2] \notin {1, 167} =>
              /\ obs.replies = <<28161>>
              /\ Trailer(obs.out[1].bytes) = 28161
              /\ obs.ret = "None"

C7_Witness ==
    /\ Decoded
    /\ expected_cla = [some |-> TRUE, v |-> 224]
    /\ Cmd = <<176, 2, 0, 0>>
    /\ obs.replies = <<28161>>
    /\ obs.path = <<"rx_len", "get_data", "bolos">>

\* C8, as the specification states it: for a complete, well-framed command
\* with CLA 0xB0, INS 0x01, P1 = P2 = 0, one byte string is transmitted and
\* it is exactly [0x01, n, name, v, version, 0x90, 0x00] for the registered
\* name (n bytes) and version (v bytes), in every state in which the command
\* arrives; the decoder is not invoked.
C8_AsStated ==
    (Decoded /\ Complete(Cmd) /\ BuiltIn(Cmd) /\ Cmd[2] = 1) =>
        /\ Len(obs.out) = 1
        /\ obs.out[1].bytes =
              <<1, Len(app_name)>> \o app_name
              \o <<Len(app_version)>> \o app_version \o <<144, 0>>
        /\ obs.decoder = [tag |-> "NotInvoked"]

\* the app-name query arrived while tx was not zero
C8_StaleCursor ==
    /\ Decoded
    /\ obs.caller = "next_event"
    /\ Cmd = <<176, 1, 0, 0>>
    /\ obs.pre_tx = 2
    /\ Len(obs.out) = 1
    /\ obs.out[1].len = 2 + 1 + 1 + Len(app_name) + 1 + Len(app_version) + 2

\* C9: for a complete, well-framed command with CLA 0xB0, INS 0xA7,
\* P1 = P2 = 0, the engine sends the single reply Ok (0x9000), hands it to the
\* transport, and then ends the application: the call does not return
\* (no event, no CLA filter step, no decoder step) and the engine does
\* nothing afterwards.
C9_ExitCommand ==
    /\ (Decoded /\ Complete(Cmd) /\ BuiltIn(Cmd) /\ Cmd[2] = 167) =>
          /\ obs.replies = <<36864>>
          /\ Len(obs.out) = 1
          /\ Trailer(obs.out[1].bytes) = 36864
          /\ obs.out[1].len = Len(obs.out[1].bytes)
          /\ obs.exited
          /\ obs.ret = "Diverged"
          /\ obs.path = <<"rx_len", "get_data", "bolos">>
          /\ obs.decoder = [tag |-> "NotInvoked"]
          /\ pc = "exit"
    /\ pc = "exit" =>
          /\ Decoded /\ Complete(Cmd) /\ BuiltIn(Cmd) /\ Cmd[2] = 167
          /\ ~ENABLED Next

C9_Witness ==
    /\ pc = "exit"
    /\ Cmd = <<176, 167, 0, 0, 1, 1>>
    /\ expected_cla = [some |-> TRUE, v |-> 224]
    /\ obs.out[1].via = "ble::send"
    /\ obs.out[1].bytes = <<144, 0>>

\* C10: when the decoder is asked (the command passed the framing checks,
\* the built-in commands and the CLA filter) and fails with e, the engine
\* sends the single reply Reply::from(e) (the code of a StatusWords value,
\* 0x6800 + code for a SyscallError), decode_event returns None and
\* next_event keeps waiting: no event reaches the application.
C10_DecoderFailureMasked ==
    (obs.op = "decode_event" /\ obs.decoder \notin {[tag |-> "NotInvoked"], [tag |-> "Ok"]}) =>
        /\ Complete(Cmd) /\ ~BuiltIn(Cmd)
        /\ expected_cla.some => Cmd[1] = expected_cla.v
        /\ obs.replies =
              << IF obs.decoder.e.type = "SyscallError"
                 THEN 26624 + obs.decoder.e.code
                 ELSE obs.decoder.e.code >>
        /\ Len(obs.out) = 1
        /\ Trailer(obs.out[1].bytes) = obs.replies[1]
        /\ obs.ret = "None"
        /\ obs.caller = "next_event" => pc = "wait"

C10_Witness ==
    /\ obs.op = "decode_event"
    /\ obs.caller = "next_event"
    /\ obs.decoder = [tag |-> "Err", e |-> [type |-> "SyscallError", code |-> 4]]
    /\ obs.replies = <<26628>>
    /\ pc = "wait"

\* ------------------------------------------------------- reply's contract
\* a call of reply by the application that returned
ReplyStep == obs'.op = "reply" /\ ~obs'.panic

\* the status word x is in the buffer at t, t + 1 (high byte first) and the
\* bytes before t are as they were
Encoded(t, x) ==
    /\ At(apdu_buffer', t) = x \div 256
    /\ At(apdu_buffer', t + 1) = x % 256
    /\ \A i \in 0..(t - 1) : At(apdu_buffer', i) = At(apdu_buffer, i)

Replied ==
    /\ obs.op \in {"reply", "decode_event"}
    /\ obs.replies # << >>
    /\ ~obs.panic

\* C12: after every reply, explicit or automatic, tx = 0, rx = 0 and the
\* transport state is idle with media none and length 0, whichever arm of
\* apdu_send was taken, the one that sends nothing included.
C12_ResetAfterReply ==
    Replied =>
        /\ tx = 0
        /\ rx = 0
        /\ G_io_app = [apdu_state |-> "APDU_IDLE",
                       apdu_media |-> "IO_APDU_MEDIA_NONE",
                       apdu_length |-> 0]

\* a reply made with bytes staged and no transport active
C12_Witness ==
    /\ obs.op = "reply"
    /\ obs.pre_tx = 2
    /\ obs.replies # << >>
    /\ obs.out = << >>
    /\ tx = 0
    /\ At(apdu_buffer, 2) = 144

\* ---------------------------------------------- commands awaiting a reply
\* the send routine of the transport that delivered a command
SendOf(state) ==
    CASE state = "APDU_USB_HID" -> "io_usb_hid_send"
      [] state = "APDU_RAW" -> "seph_send"
      [] state = "APDU_USB_CCID" -> "ccid::send"
      [] state = "APDU_BLE" -> "ble::send"

\* the application replied to a command it had been handed
Answered == obs.op = "reply" /\ obs.pending # "none" /\ ~obs.panic

\* C13, as the specification states it: the reply the application sends for
\* a command returned as Event::Command is transmitted, once, over the
\* transport that delivered that command, whatever the application called
\* between receiving the command and replying.
C13_AsStated ==
    Answered =>
        /\ Len(obs.out) = 1
        /\ obs.out[1].via = SendOf(obs.pending)

\* the reply to a command delivered over USB HID that went to no transport
C13_Unrouted ==
    /\ Answered
    /\ obs.pending = "APDU_USB_HID"
    /\ obs.replies = <<36864>>
    /\ obs.out = << >>

\* ------------------------------------------------------------ the cursors
\* C14, as the specification states it: in every reachable state rx <= 260
\* and tx <= 260, a cursor never taking a value that was not checked against
\* the buffer's capacity first.
C14_AsStated ==
    /\ rx <= 260
    /\ tx <= 260

\* an indexed write past the buffer: tx took the index before the check
C14_CursorPastBuffer ==
    /\ obs.op = "index_mut"
    /\ obs.panic
    /\ obs.pre_tx = 0
    /\ tx = 261

\* C15, as the specification states it: next_event begins waiting with
\* rx = 0 and tx = 0 whatever the application did since the last reply, so
\* decode_event called by next_event starts from tx = 0 and an automatic
\* reply is the status word alone.
C15_AsStated ==
    /\ pc = "wait" => (rx = 0 /\ tx = 0)
    /\ (obs.op = "decode_event" /\ obs.caller = "next_event") => obs.pre_tx = 0

\* an automatic BadLen reply of four bytes: two leftover bytes, then 6e 03
C15_LeftoverBytes ==
    /\ obs.op = "decode_event"
    /\ obs.caller = "next_event"
    /\ obs.pre_tx = 2
    /\ obs.replies = <<28163>>
    /\ Len(obs.out) = 1
    /\ obs.out[1].len = 4
    /\ SubSeq(obs.out[1].bytes, 3, 4) = <<110, 3>>

\* C16, as the specification states it: while a command returned as
\* Event::Command has not been replied to, next_event is not waiting for or
\* decoding a further packet, and the transport state is still that of the
\* command.
C16_AsStated ==
    pending # "none" =>
        /\ pc # "wait"
        /\ G_io_app.apdu_state = pending

\* next_event decoding a further packet while a command delivered over USB
\* HID has no reply yet, the transport state cleared
C16_SecondCycle ==
    /\ pending = "APDU_USB_HID"
    /\ pc = "wait"
    /\ obs.op = "decode_event"
    /\ obs.caller = "next_event"
    /\ obs.pending = "APDU_USB_HID"
    /\ G_io_app.apdu_state = "APDU_IDLE"

\* ------------------------------------- specification for the conversions
\* enum StatusWords and enum SyscallError (repr u8: InvalidParameter = 2 up
\* to Unspecified = 11), a variant standing for its discriminant
StatusWordsValues ==
    {SW_Ok, SW_NothingReceived, SW_BadCla, SW_BadIns, SW_BadP1P2, SW_BadLen,
     SW_UserCancelled, SW_Unknown, SW_Panic}
SyscallErrorValues == 2..11

\* faulty variant: Timeout (10) falls to the default arm
SyscallError_from_without_timeout(e) == IF e \in 2..9 THEN e ELSE 11

\* impl From<u32> for SyscallError
SyscallError_from(e) == IF e \in 2..10 THEN e ELSE 11

\* impl From<StatusWords>, From<SyscallError>, From<Infallible> for Reply and
\* From<u32> for SyscallError, by the kind of the value converted
Convert(kind, value) ==
    CASE kind = "StatusWords" -> ReplyFrom([type |-> "StatusWords", code |-> value])
      [] kind = "SyscallError" -> ReplyFrom([type |-> "SyscallError", code |-> value])
      [] kind = "Infallible" -> INFALLIBLE_REPLY
      [] kind = "u32" -> SyscallError_from(value)

ConvertInputs ==
    {[kind |-> "StatusWords", value |-> v] : v \in StatusWordsValues}
    \cup {[kind |-> "SyscallError", value |-> v] : v \in SyscallErrorValues}
    \cup {[kind |-> "Infallible", value |-> 0]}
    \cup {[kind |-> "u32", value |-> v] : v \in 0..MaxCode \cup {2147483647}}

InitConvert ==
    /\ apdu_buffer = << >>
    /\ rx = 0
    /\ tx = 0
    /\ expected_cla = NoCla
    /\ G_io_app = IoIdle
    /\ app_name = << >>
    /\ app_version = << >>
    /\ host_cmd = << >>
    /\ pc = "app"
    /\ \E i \in ConvertInputs :
          obs = [op |-> "input", kind |-> i.kind, value |-> i.value]
    /\ ncmd = 0
    /\ ncall = 0
    /\ pending = "none"

ConvertCall ==
    /\ obs.op = "input"
    /\ obs' = [op |-> "convert", kind |-> obs.kind, value |-> obs.value,
               result |-> Convert(obs.kind, obs.value)]
    /\ UNCHANGED <<apdu_buffer, rx, tx, expected_cla, G_io_app, app_name,
                   app_version, host_cmd, pc, ncmd, ncall, pending>>

NextConvert == ConvertCall

SpecConvert == InitConvert /\ [][NextConvert]_vars

\* C17: a SyscallError of code c (2..11) converts to 0x6800 + c, in the
\* range 0x68xx and equal to no StatusWords value (code 4 gives 0x6804); a
\* StatusWords value converts to its own code; Infallible converts to
\* 0x9000; SyscallError::from(u32) gives the variant of code e for e in
\* 2..10 and Unspecified (11) for every other e.
C17_StatusWordConversion ==
    obs.op = "convert" =>
        CASE obs.kind = "SyscallError" ->
               /\ obs.result = 26624 + obs.value
               /\ obs.result \div 256 = 104
               /\ obs.result \notin {36864, 27010, 28160, 28161, 28162, 28163,
                                     28164, 27904, 57344}
               /\ obs.value = 4 => obs.result = 26628
          [] obs.kind = "StatusWords" ->
               /\ obs.result = obs.value
               /\ obs.result \in 0..65535
          [] obs.kind = "Infallible" -> obs.result = 36864
          [] obs.kind = "u32" ->
               obs.result = IF 2 <= obs.value /\ obs.value <= 10
                            THEN obs.value ELSE 11

C17_Witness ==
    /\ obs.op = "convert"
    /\ obs.kind = "u32"
    /\ obs.value = 10
    /\ obs.result = 10

\* ------------------------------------------- packets that carry no command
\* next_event's decode_event treated a ticker, a button push, a packet of
\* unrecognised tag, a USB event of length other than 1 or a USB transfer
\* event of length below 3
QuietStep ==
    /\ pc = "wait"
    /\ obs'.op = "decode_event"
    /\ obs'.caller = "next_event"
    /\ \/ obs'.tag \in {"TickerEvent", "ButtonPush", "Unknown"}
       \/ obs'.tag = "USBEvent" /\ obs'.len # 1
       \/ obs'.tag = "USBXFEREvent" /\ obs'.len < 3

C19_ExactlyOneAnswer ==
    Decoded =>
        IF obs.ret = "Command"
        THEN obs.replies = << >> /\ obs.out = << >>
        ELSE /\ Len(obs.replies) = 1
             /\ Len(obs.out) = 1
             /\ Trailer(obs.out[1].bytes) = obs.replies[1]
             /\ IF Complete(Cmd) /\ BuiltIn(Cmd) /\ Cmd[2] = 167
                THEN obs.exited /\ pc = "exit"
                ELSE /\ ~obs.exited
                     /\ obs.ret = "None"
                     /\ obs.caller = "next_event" => pc = "wait"

\* a decoder failure on a command sent over BLE, answered once
C19_Witness ==
    /\ Decoded
    /\ obs.caller = "next_event"
    /\ obs.decoder = [tag |-> "Err", e |-> [type |-> "StatusWords", code |-> 28161]]
    /\ obs.replies = <<28161>>
    /\ Len(obs.out) = 1
    /\ obs.out[1].via = "ble::send"
    /\ pc = "wait"

\* ------------------------------------------------- get_data after a reply
\* C20: once a reply has been sent get_data is BadLen whatever the buffer
\* holds (bytes of the answered command, of the reply, or staged since), and
\* stays so, rx being 0, until decode_event finds the next complete command:
\* rx takes no value other than 0 except the length of a complete command
\* found by decode_event.
C20_NoStaleData ==
    [][/\ (obs'.op \in {"reply", "decode_event"} /\ obs'.replies # << >>
           /\ ~obs'.panic) =>
              get_data(apdu_buffer', rx') = [tag |-> "Err", sw |-> 28163]
       /\ (obs'.op = "get_data" /\ rx' = 0) =>
              obs'.ret = [tag |-> "Err", sw |-> 28163]
       /\ (rx' # rx /\ rx' # 0) =>
              /\ obs'.op = "decode_event"
              /\ obs'.cmd # << >>
              /\ rx' = Len(obs'.cmd)
      ]_vars

\* get_data called after an automatic reply, the rejected command's length
\* byte and data still in the buffer
C20_Witness ==
    /\ obs.op = "get_data"
    /\ rx = 0
    /\ At(apdu_buffer, 4) = 1
    /\ At(apdu_buffer, 5) = 1
    /\ obs.ret = [tag |-> "Err", sw |-> 28163]

=============================================================================
